---- MODULE Spec2Model ----
(***************************************************************************)
(* Model of src/myApp.js: ten callback-style operations of a Person        *)
(* collection kept in a document store through the mongoose client.        *)
(*                                                                         *)
(* The collection is a sequence of documents in natural (insertion)        *)
(* order.  Every store response is either a failure or a success, chosen   *)
(* nondeterministically.  A one-step operation (one store call, then the   *)
(* callback) is one action.  The two load-modify-save operations are two   *)
(* actions each: the response to the load runs the first callback, which   *)
(* mutates the loaded document and issues the save; the response to the    *)
(* save runs the second callback.  Between the two, other operations may   *)
(* run.  A callback runs to completion before the next store response is   *)
(* handled: `last` records the call whose final callback is running - what *)
(* the store answered, what the callback did with done, and the collection *)
(* as it was just before that store response (`pre`) - until the callback  *)
(* returns.                                                                *)
(***************************************************************************)
EXTENDS Integers, Sequences, FiniteSets, Bags, TLC

(* Bounds of the model *)
MaxWork == 4      \* documents constructed plus load-modify-save calls that
                  \* get as far as their save, over a whole behaviour
MaxBatch == 2     \* payloads in one createManyPeople call

VARIABLES store, nextId, pending, edits, last

vars == <<store, nextId, pending, edits, last>>

----------------------------------------------------------------------------
(* Values *)

Null == [isNull |-> TRUE]          \* the absent-result marker
Nothing == [nothing |-> TRUE]      \* no value (done not called, no argument)
NoError == "null"                  \* err === null
StoreError == "StoreError"         \* a failure reported by the store
ValidationError == "ValidationError"
DocumentNotFoundError == "DocumentNotFoundError"
TypeError == "TypeError"           \* thrown by a property access on null

foodToAdd == "hamburger"
ageToSet == 20
nameToRemove == "Mary"
foodToSearch == "burrito"
limitRows == 2

(* Names in ascending order of the store's sort (binary string order:      *)
(* upper case before lower case).                                          *)
NameOrder == <<"John G", "Mary", "jimmy">>

Names == {NameOrder[i] : i \in 1..Len(NameOrder)}

NameRank(n) == CHOOSE i \in 1..Len(NameOrder) : NameOrder[i] = n

Foods == {"burrito", "fries"}

Ids == 1..MaxWork

(* Payloads a caller passes to createManyPeople; the last one lacks the    *)
(* required name.                                                          *)
Payloads ==
  { [name |-> "Mary", age |-> 25, favoriteFoods |-> <<"burrito">>],
    [name |-> "jimmy", age |-> 30, favoriteFoods |-> <<"burrito">>],
    [age |-> 24, favoriteFoods |-> <<"fries">>] }

Batches == UNION {[1..n -> Payloads] : n \in 1..MaxBatch}

----------------------------------------------------------------------------
(* The schema and the store's operations, as the client library performs   *)
(* them.                                                                   *)

(* personSchema: name is required. *)
Valid(doc) == "name" \in DOMAIN doc

(* Faulty variant of NewPerson: every document gets the same identifier. *)
NewPersonSameId(payload, id) == [id |-> 1] @@ payload

(* new Person(payload): the document gets its identifier on construction. *)
NewPerson(payload, id) == [id |-> id] @@ payload

john(id) ==
  NewPerson([name |-> "John G", age |-> 30,
             favoriteFoods |-> <<"pasta", "fries", "burgers">>], id)

Min(a, b) == IF a < b THEN a ELSE b

HasFood(doc, food) == \E i \in 1..Len(doc.favoriteFoods) : doc.favoriteFoods[i] = food

(* Model.findById *)
FindById(coll, id) ==
  LET hits == SelectSeq(coll, LAMBDA r : r.id = id)
  IN IF hits = <<>> THEN Null ELSE Head(hits)

(* Model.find({name: personName}) *)
FindByName(coll, personName) == SelectSeq(coll, LAMBDA r : r.name = personName)

(* Faulty variant of FindOneByName: the last match instead of the first. *)
FindLastByName(coll, personName) ==
  LET hits == SelectSeq(coll, LAMBDA r : r.name = personName)
  IN IF hits = <<>> THEN Null ELSE hits[Len(hits)]

(* Model.findOne({name: personName}): the first match in natural order *)
FindOneByName(coll, personName) ==
  LET hits == FindByName(coll, personName)
  IN IF hits = <<>> THEN Null ELSE Head(hits)

(* Model.find({favoriteFoods: food}) *)
FindByFood(coll, food) == SelectSeq(coll, LAMBDA r : HasFood(r, food))

(* Model.findOne({favoriteFoods: food}) *)
FindOneByFoodIn(coll, food) ==
  LET hits == FindByFood(coll, food)
  IN IF hits = <<>> THEN Null ELSE Head(hits)

(* Query.sort({name: 1}): ascending by name; documents of equal name keep    *)
(* their natural order.                                                    *)
RECURSIVE InsertByName(_, _)
InsertByName(r, s) ==
  IF s = <<>> THEN <<r>>
  ELSE IF NameRank(r.name) <= NameRank(Head(s).name) THEN <<r>> \o s
  ELSE <<Head(s)>> \o InsertByName(r, Tail(s))

(* Faulty variant of SortByName: the natural order is kept. *)
SortSkipped(s) == s

RECURSIVE SortByName(_)
SortByName(s) ==
  IF s = <<>> THEN <<>> ELSE InsertByName(Head(s), SortByName(Tail(s)))

(* Query.limit(n) *)
Limit(s, n) == SubSeq(s, 1, Min(n, Len(s)))

(* Query.select({age: 0}): the age field is left out of each result. *)
SelectWithoutAge(doc) ==
  [id |-> doc.id, name |-> doc.name, favoriteFoods |-> doc.favoriteFoods]

(* find(...).sort(...).limit(...).select(...).exec *)
ExecQueryChain(coll) ==
  LET rows == Limit(SortByName(FindByFood(coll, foodToSearch)), limitRows)
  IN [i \in 1..Len(rows) |-> SelectWithoutAge(rows[i])]

(* Faulty variant of InsertDoc: the document is not stored. *)
InsertDocLost(coll, doc) == coll

(* Document.save of a new document: insert it. *)
InsertDoc(coll, doc) == Append(coll, doc)

(* Faulty variant of PushFood: unshift instead of push. *)
PushFoodFront(foods, food) == <<food>> \o foods

(* data.favoriteFoods.push(foodToAdd): the in-memory array grows at the     *)
(* end and the push is recorded as the pending change of that path.        *)
PushFood(foods, food) == Append(foods, food)

(* A loaded document: the values read, plus what has been modified since. *)
Loaded(data) == [doc |-> data, orig |-> data, pushed |-> <<>>, ageModified |-> FALSE]

(* callback body of findEditThenSave, line 129 *)
EditFoods(d) ==
  [d EXCEPT !.doc.favoriteFoods = PushFood(@, foodToAdd),
            !.pushed = Append(@, foodToAdd)]

(* callback body of findAndUpdate, line 150: assigning the value the path  *)
(* already has does not mark it modified.                                  *)
EditAge(d) ==
  [d EXCEPT !.doc.age = ageToSet,
            !.ageModified = (d.doc.age # ageToSet)]

(* Faulty variant of SaveModified: the whole in-memory document replaces   *)
(* the stored one.                                                         *)
SaveWhole(coll, d) ==
  [i \in 1..Len(coll) |-> IF coll[i].id = d.doc.id THEN d.doc ELSE coll[i]]

(* Document.save of a loaded document: an update of the stored document    *)
(* with that identifier that carries the modified paths only - the pushed  *)
(* array elements are appended to the stored array, a modified age is set. *)
SaveModified(coll, d) ==
  [i \in 1..Len(coll) |->
     IF coll[i].id = d.doc.id
     THEN [coll[i] EXCEPT !.favoriteFoods = @ \o d.pushed,
                          !.age = IF d.ageModified THEN d.doc.age ELSE @]
     ELSE coll[i]]

(* Faulty variant of RemoveDoc: the first document is removed, whatever    *)
(* its identifier.                                                         *)
RemoveHead(coll, id) == IF coll = <<>> THEN coll ELSE Tail(coll)

(* Model.findByIdAndRemove *)
RemoveDoc(coll, id) == SelectSeq(coll, LAMBDA r : r.id # id)

(* Model.remove({name: nameToRemove}) and its outcome summary *)
RemoveByName(coll, personName) == SelectSeq(coll, LAMBDA r : r.name # personName)

RemoveSummary(coll, personName) == [n |-> Len(FindByName(coll, personName)), ok |-> 1]

----------------------------------------------------------------------------
(* The callbacks *)

(* function(err, data) { if (err) return console.error(err); done(null, data); } *)
(* doneCount counts the invocations of done; doneErr and doneRes are its    *)
(* arguments ("-" and Nothing while it has not been invoked).              *)
Callback(err, data) ==
  IF err # NoError
  THEN [logged |-> err, thrown |-> NoError, doneCount |-> 0, doneErr |-> "-",
        doneRes |-> Nothing]
  ELSE [logged |-> NoError, thrown |-> NoError, doneCount |-> 1, doneErr |-> NoError,
        doneRes |-> data]

(* A callback that throws before it reaches done. *)
Thrown(exc) ==
  [logged |-> NoError, thrown |-> exc, doneCount |-> 0, doneErr |-> "-",
   doneRes |-> Nothing]

(* The record of a terminating call: the operation, its argument, the      *)
(* collection before its final store response, the document as loaded (for *)
(* a load-modify-save call), the store's error and what the callback did.  *)
Finish(op, arg, orig, err, cb) ==
  [op |-> op, arg |-> arg, pre |-> store, orig |-> orig, storeErr |-> err] @@ cb

(* No callback is running. *)
NoCall ==
  [op |-> "none", arg |-> Nothing, pre |-> <<>>, orig |-> Nothing,
   storeErr |-> NoError] @@ Thrown(NoError)

Idle == last.op = "none"

(* What the bound MaxWork counts. *)
Work == (nextId - 1) + edits

Init ==
  /\ store = <<>>
  /\ nextId = 1
  /\ pending = EmptyBag
  /\ edits = 0
  /\ last = NoCall

----------------------------------------------------------------------------
(* The operations *)

createAndSavePerson ==
  /\ Idle
  /\ Work + 1 <= MaxWork
  /\ \E fail \in BOOLEAN :
       LET doc == john(nextId)
           err == IF fail THEN StoreError ELSE NoError
       IN /\ store' = IF err = NoError THEN InsertDoc(store, doc) ELSE store
          /\ last' = Finish("createAndSavePerson", Nothing, Nothing, err,
                            Callback(err, doc))
  /\ nextId' = nextId + 1
  /\ UNCHANGED <<pending, edits>>

(* Model.create(array, cb): one document per payload, each saved on its    *)
(* own; the callback gets the first error, if any, or all the documents.   *)
createManyPeople ==
  \E arrayOfPeople \in Batches :
    LET n == Len(arrayOfPeople)
        docs == [i \in 1..n |-> NewPerson(arrayOfPeople[i], nextId + i - 1)]
        invalid == {i \in 1..n : ~Valid(docs[i])}
    IN /\ Idle
       /\ Work + n <= MaxWork
       /\ \E refused \in SUBSET (1..n) :
            LET failed == invalid \cup refused
                first == CHOOSE i \in failed : \A j \in failed : i <= j
                err == IF failed = {} THEN NoError
                       ELSE IF first \in invalid THEN ValidationError
                       ELSE StoreError
                saved == SelectSeq(docs, LAMBDA d : \A i \in failed : docs[i] # d)
            IN /\ store' = store \o saved
               /\ last' = Finish("createManyPeople", arrayOfPeople, Nothing, err,
                                 Callback(err, saved))
       /\ nextId' = nextId + n
       /\ UNCHANGED <<pending, edits>>

findPeopleByName ==
  \E personName \in Names, fail \in BOOLEAN :
    LET err == IF fail THEN StoreError ELSE NoError
    IN /\ Idle
       /\ last' = Finish("findPeopleByName", personName, Nothing, err,
                         Callback(err, FindByName(store, personName)))
       /\ UNCHANGED <<store, nextId, pending, edits>>

findOneByFood ==
  \E food \in Foods, fail \in BOOLEAN :
    LET err == IF fail THEN StoreError ELSE NoError
    IN /\ Idle
       /\ last' = Finish("findOneByFood", food, Nothing, err,
                         Callback(err, FindOneByFoodIn(store, food)))
       /\ UNCHANGED <<store, nextId, pending, edits>>

findPersonById ==
  \E personId \in Ids, fail \in BOOLEAN :
    LET err == IF fail THEN StoreError ELSE NoError
    IN /\ Idle
       /\ last' = Finish("findPersonById", personId, Nothing, err,
                         Callback(err, FindById(store, personId)))
       /\ UNCHANGED <<store, nextId, pending, edits>>

(* findEditThenSave, the response to findById (lines 125-131) *)
findEditThenSave ==
  /\ Idle
  /\ \E personId \in Ids, fail \in BOOLEAN :
       LET data == FindById(store, personId)
       IN IF fail
          THEN /\ last' = Finish("findEditThenSave", personId, Nothing, StoreError,
                                 Callback(StoreError, Nothing))
               /\ UNCHANGED <<store, nextId, pending, edits>>
          ELSE IF data = Null
          THEN /\ last' = Finish("findEditThenSave", personId, Null, NoError,
                                 Thrown(TypeError))
               /\ UNCHANGED <<store, nextId, pending, edits>>
          ELSE /\ Work + 1 <= MaxWork
               /\ pending' = pending (+) SetToBag({
                     [op |-> "findEditThenSave"] @@ EditFoods(Loaded(data))})
               /\ edits' = edits + 1
               /\ UNCHANGED <<store, nextId, last>>

(* findAndUpdate, the response to findOne (lines 146-154) *)
findAndUpdate ==
  /\ Idle
  /\ \E personName \in Names, fail \in BOOLEAN :
       LET data == FindOneByName(store, personName)
       IN IF fail
          THEN /\ last' = Finish("findAndUpdate", personName, Nothing, StoreError,
                                 Callback(StoreError, Nothing))
               /\ UNCHANGED <<store, nextId, pending, edits>>
          ELSE IF data = Null
          THEN /\ last' = Finish("findAndUpdate", personName, Null, NoError,
                                 Thrown(TypeError))
               /\ UNCHANGED <<store, nextId, pending, edits>>
          ELSE /\ Work + 1 <= MaxWork
               /\ pending' = pending (+) SetToBag({
                     [op |-> "findAndUpdate"] @@ EditAge(Loaded(data))})
               /\ edits' = edits + 1
               /\ UNCHANGED <<store, nextId, last>>

(* The response to data.save of a pending call d (lines 131-134, 154-157); *)
(* arg is the argument the call was made with.  Saving a document that is  *)
(* no longer stored is an error.                                           *)
saveResponse(d, arg) ==
  /\ Idle
  /\ \E fail \in BOOLEAN :
       LET err == IF fail THEN StoreError
                  ELSE IF FindById(store, d.doc.id) = Null THEN DocumentNotFoundError
                  ELSE NoError
       IN /\ store' = IF err = NoError THEN SaveModified(store, d) ELSE store
          /\ last' = Finish(d.op, arg, d.orig, err, Callback(err, d.doc))
  /\ pending' = pending (-) SetToBag({d})
  /\ UNCHANGED <<nextId, edits>>

findEditThenSaveSaved ==
  \E d \in BagToSet(pending) : d.op = "findEditThenSave" /\ saveResponse(d, d.doc.id)

findAndUpdateSaved ==
  \E d \in BagToSet(pending) : d.op = "findAndUpdate" /\ saveResponse(d, d.doc.name)

removeById ==
  \E personId \in Ids, fail \in BOOLEAN :
    LET err == IF fail THEN StoreError ELSE NoError
    IN /\ Idle
       /\ store' = IF err = NoError THEN RemoveDoc(store, personId) ELSE store
       /\ last' = Finish("removeById", personId, Nothing, err,
                         Callback(err, FindById(store, personId)))
       /\ UNCHANGED <<nextId, pending, edits>>

removeManyPeople ==
  \E fail \in BOOLEAN :
    LET err == IF fail THEN StoreError ELSE NoError
    IN /\ Idle
       /\ store' = IF err = NoError THEN RemoveByName(store, nameToRemove) ELSE store
       /\ last' = Finish("removeManyPeople", Nothing, Nothing, err,
                         Callback(err, RemoveSummary(store, nameToRemove)))
       /\ UNCHANGED <<nextId, pending, edits>>

queryChain ==
  \E fail \in BOOLEAN :
    LET err == IF fail THEN StoreError ELSE NoError
    IN /\ Idle
       /\ last' = Finish("queryChain", Nothing, Nothing, err,
                         Callback(err, ExecQueryChain(store)))
       /\ UNCHANGED <<store, nextId, pending, edits>>

(* The callback that ran last returns (after done, after console.error,   *)
(* or by the exception it threw).                                          *)
callbackReturns ==
  /\ ~Idle
  /\ last' = NoCall
  /\ UNCHANGED <<store, nextId, pending, edits>>

Next ==
  \/ createAndSavePerson
  \/ createManyPeople
  \/ findPeopleByName
  \/ findOneByFood
  \/ findPersonById
  \/ findEditThenSave
  \/ findEditThenSaveSaved
  \/ findAndUpdate
  \/ findAndUpdateSaved
  \/ removeById
  \/ removeManyPeople
  \/ queryChain
  \/ callbackReturns

Spec == Init /\ [][Next]_vars

----------------------------------------------------------------------------
(* Properties.  While the final callback of a call runs, `last` is that    *)
(* call, `last.pre` the collection before the call's final store response  *)
(* and `store` the collection after it.                                    *)

Terminated == last.op # "none"

Succeeded(op) == last.op = op /\ last.doneCount = 1

LoadModifySave == {"findEditThenSave", "findAndUpdate"}

(* The documents other than `id` are the same, at the same places. *)
OthersUnchanged(id) ==
  /\ Len(store) = Len(last.pre)
  /\ \A i \in 1..Len(store) : last.pre[i].id # id => store[i] = last.pre[i]

(* C1: once the store has responded, the completion callback of the call   *)
(* has been invoked exactly once, whether the store succeeded or failed.   *)
C1_DoneExactlyOnce == Terminated => last.doneCount = 1

(* C2: a failed store call delivers that error, and nothing else, to the   *)
(* callback; a successful one delivers a null error and the result.  (The  *)
(* calls whose callback throws are left to C3.)                            *)
C2_ErrorOrResultDelivered ==
  (Terminated /\ last.thrown = NoError) =>
     /\ last.doneCount = 1
     /\ last.doneErr = last.storeErr
     /\ last.storeErr # NoError => last.doneRes = Nothing

(* C3: findEditThenSave of an identifier, or findAndUpdate of a name, that *)
(* matches no stored record (the load returns the absent-result marker)    *)
(* delivers a failure as the callback's only argument and leaves the       *)
(* collection unchanged.                                                   *)
C3_NotFoundDelivered ==
  (last.op \in LoadModifySave /\ last.storeErr = NoError /\ last.orig = Null) =>
     /\ last.doneCount = 1
     /\ last.doneErr # NoError
     /\ last.doneRes = Nothing
     /\ store = last.pre

(* The stored record is still as the call loaded it: no writer in between. *)
NoInterleavedWriter == FindById(last.pre, last.orig.id) = last.orig

(* C4: a successful findEditThenSave(id) with no interleaved writer leaves  *)
(* the stored favoriteFoods equal to the previous sequence with            *)
(* "hamburger" appended (duplicates kept), name and age as they were,      *)
(* every other record unchanged, and delivers the updated record.          *)
C4_AppendsHamburger ==
  (Succeeded("findEditThenSave") /\ NoInterleavedWriter) =>
     LET r == last.orig
         now == FindById(store, last.arg)
     IN /\ r.id = last.arg
        /\ now # Null
        /\ now.favoriteFoods = r.favoriteFoods \o <<"hamburger">>
        /\ now.name = r.name
        /\ now.age = r.age
        /\ OthersUnchanged(last.arg)
        /\ last.doneErr = NoError
        /\ last.doneRes = now

(* C4 witness: a record that already had "hamburger" among several foods   *)
(* got a second one, next to another stored record.                        *)
C4_Witness ==
  /\ Succeeded("findEditThenSave")
  /\ NoInterleavedWriter
  /\ HasFood(last.orig, "hamburger")
  /\ Len(last.orig.favoriteFoods) >= 2
  /\ Len(store) >= 2

(* C5: a successful findAndUpdate(name) sets age to 20 on exactly one      *)
(* record, the first match in the store's order, and persists it (a find   *)
(* by its identifier returns age 20); every other record, the others of    *)
(* the same name included, is unchanged.                                   *)
C5_FirstMatchGetsAge ==
  Succeeded("findAndUpdate") =>
     LET id == last.orig.id
         now == FindById(store, id)
     IN /\ last.orig.name = last.arg
        /\ now # Null
        /\ now.age = 20
        /\ now.name = last.arg
        /\ OthersUnchanged(id)
        /\ \A i \in 1..Len(store) :
             last.pre[i].id = id =>
               /\ store[i].favoriteFoods = last.pre[i].favoriteFoods
               /\ store[i].name = last.pre[i].name
               /\ \A j \in 1..(i - 1) : last.pre[j].name # last.arg

(* C5 witness: another record of the same name is stored and keeps an age  *)
(* other than 20.                                                          *)
C5_Witness ==
  /\ Succeeded("findAndUpdate")
  /\ \E i \in 1..Len(store) :
       /\ store[i].name = last.arg
       /\ store[i].id # last.orig.id
       /\ store[i].age # 20
  /\ last.orig.age # 20

(* C6: a successful removeById(id) of a stored record hands that record,   *)
(* as it was, to the callback; the identifier is then not found (a         *)
(* successful findPersonById of an identifier that is not stored delivers  *)
(* the absent-result marker with a null error); the records with other     *)
(* identifiers are all still stored, unchanged.                            *)
C6_RemovedThenAbsent ==
  /\ (Succeeded("removeById") /\ FindById(last.pre, last.arg) # Null) =>
        /\ last.doneRes = FindById(last.pre, last.arg)
        /\ last.doneRes.id = last.arg
        /\ FindById(store, last.arg) = Null
        /\ \A i \in 1..Len(store) : store[i].id # last.arg
        /\ Len(store) = Len(last.pre) - 1
        /\ \A i \in 1..Len(last.pre) :
             last.pre[i].id # last.arg =>
               \E j \in 1..Len(store) : store[j] = last.pre[i]
  /\ (last.op = "findPersonById" /\ last.storeErr = NoError
        /\ \A i \in 1..Len(store) : store[i].id # last.arg) =>
        /\ last.doneCount = 1
        /\ last.doneErr = NoError
        /\ last.doneRes = Null

(* C6 witness: a stored record was removed and others remain. *)
C6_Witness ==
  /\ Succeeded("removeById")
  /\ FindById(last.pre, last.arg) # Null
  /\ Len(store) >= 2

BurritoLovers == {i \in 1..Len(store) : HasFood(store[i], "burrito")}

(* C7: a successful queryChain delivers only records whose favoriteFoods   *)
(* include "burrito", min(2, number of such records) of them, in ascending *)
(* order of name and no later in that order than any record left out,      *)
(* none with an age field; the collection is unchanged.                    *)
C7_QueryChainResult ==
  Succeeded("queryChain") =>
     LET res == last.doneRes
     IN /\ \A k \in 1..Len(res) :
             \E i \in BurritoLovers :
               /\ res[k].id = store[i].id
               /\ res[k].name = store[i].name
               /\ res[k].favoriteFoods = store[i].favoriteFoods
        /\ \A k, l \in 1..Len(res) : k # l => res[k].id # res[l].id
        /\ Len(res) = Min(2, Cardinality(BurritoLovers))
        /\ \A k \in 1..(Len(res) - 1) : NameRank(res[k].name) <= NameRank(res[k + 1].name)
        /\ \A i \in BurritoLovers :
             (\A k \in 1..Len(res) : res[k].id # store[i].id) =>
                \A k \in 1..Len(res) : NameRank(res[k].name) <= NameRank(store[i].name)
        /\ \A k \in 1..Len(res) : "age" \notin DOMAIN res[k]
        /\ store = last.pre

(* C7 witness: three matching records, stored out of name order, next to   *)
(* nothing else: the limit cuts and the sort reorders.                     *)
C7_Witness ==
  /\ Succeeded("queryChain")
  /\ Cardinality(BurritoLovers) = 3
  /\ \E i, j \in BurritoLovers :
       i < j /\ NameRank(store[i].name) > NameRank(store[j].name)

DistinctIds == \A i, j \in 1..Len(store) : i # j => store[i].id # store[j].id

(* C8 as stated: N payloads give N created records, stored identifiers are *)
(* always distinct, and a failed bulk insert stores none of its payloads.  *)
C8_AllOrNothing ==
  /\ DistinctIds
  /\ Succeeded("createManyPeople") => Len(last.doneRes) = Len(last.arg)
  /\ (last.op = "createManyPeople" /\ last.storeErr # NoError) => store = last.pre

(* C8 amended: N payloads give N created records, stored as delivered;     *)
(* stored identifiers are always distinct; a failed bulk insert stores no  *)
(* payload that lacks a name and leaves the earlier records alone, but it  *)
(* may store valid payloads of the same call, each under its own           *)
(* identifier: every document is saved on its own.                         *)
C8_EachSavedOnItsOwn ==
  /\ DistinctIds
  /\ \A i \in 1..Len(store) : Valid(store[i])
  /\ Succeeded("createManyPeople") =>
        /\ Len(last.doneRes) = Len(last.arg)
        /\ store = last.pre \o last.doneRes
        /\ \A i \in 1..Len(last.arg) :
             /\ last.doneRes[i].name = last.arg[i].name
             /\ last.doneRes[i].age = last.arg[i].age
             /\ last.doneRes[i].favoriteFoods = last.arg[i].favoriteFoods
  /\ (last.op = "createManyPeople" /\ last.storeErr # NoError) =>
        /\ Len(last.pre) <= Len(store)
        /\ Len(store) < Len(last.pre) + Len(last.arg)
        /\ SubSeq(store, 1, Len(last.pre)) = last.pre
        /\ \A i \in (Len(last.pre) + 1)..Len(store) :
             \E k \in 1..Len(last.arg) :
               /\ Valid(last.arg[k])
               /\ store[i].name = last.arg[k].name
               /\ store[i].age = last.arg[k].age
               /\ store[i].favoriteFoods = last.arg[k].favoriteFoods

(* C8 witness: a bulk insert failed on a payload without a name and the    *)
(* valid payload of the same call is stored, after an earlier deletion.    *)
C8_Witness ==
  /\ last.op = "createManyPeople"
  /\ last.storeErr = ValidationError
  /\ Len(store) > Len(last.pre)
  /\ store[1].id > 1

Raced ==
  /\ last.op \in LoadModifySave
  /\ last.doneCount = 1
  /\ FindById(last.pre, last.orig.id) # last.orig

====
